---- MODULE Spec2Model ----
(***************************************************************************)
(* Verification model of the Helpers repository: the bit-reversal          *)
(* primitive (bitSwap.hpp), the byte-order swap (byteSwap.hpp), the        *)
(* bit-serial CRC-16 engine (crc16.hpp), the compile-time loop             *)
(* (tmpLoop.hpp) and the state machine (statemachine.hpp).                 *)
(*                                                                         *)
(* An unsigned value of a C++ fixed-width type is modelled as the set of   *)
(* the positions of its 1 bits (position 0 is the least significant bit).  *)
(* The width is not part of the value, as in C++ it belongs to the type:   *)
(* every operator that depends on it takes it as an argument.  Read as a   *)
(* polynomial over GF(2), the same set is the set of exponents with        *)
(* coefficient 1.                                                          *)
(***************************************************************************)
EXTENDS Integers, Sequences, FiniteSets, TLC

VARIABLES
    width,      \* bitSwap: the overload selected by the argument type (8, 16, 32, 64)
    value,      \* bitSwap: the argument
    reversed,   \* bitSwap: the value returned by bitSwap(value)
    restored,   \* bitSwap: the value returned by bitSwap(bitSwap(value))
    swapPc,     \* bitSwap, byteSwap: position of the caller: "start", "once", "twice"
    swapped,    \* byteSwap: the value returned by byteSwap(value)
    unswapped,  \* byteSwap: the value returned by byteSwap(byteSwap(value))
    engine,     \* Crc16: the template arguments of the instance
    crc_,       \* Crc16: the member crc_ (uint16_t)
    fed,        \* Crc16: all octets handed to process() so far, in order
    calls,      \* Crc16: number of process() calls so far
    lastOp,     \* Crc16: the last member function called: "new", "process", "get"
    result,     \* Crc16: the value returned by the last call (None for the constructor and process())
    framed,     \* Crc16: the last process() call was handed exactly the checksum of all octets before it
    loopCount,  \* Loop: the template argument Index of the instantiation the caller names
    Index,      \* Loop: the template argument Index of the instantiation whose impl() runs next
    args,       \* Loop: the arguments the caller passes to impl()
    wrapperCalls, \* Loop: the calls of Wrapper<I>::impl made so far, as pairs <<I, arguments>>
    loopPc,     \* Loop: "call" while an impl() is to run, "done" after the last returned, "deleted" if ill-formed
    previousState_, \* Statemachine: the member previousState_
    currentState_,  \* Statemachine: the member currentState_
    invoked,    \* Statemachine: the member functions of states invoked so far, as pairs <<function, state>>
    lastCall,   \* Statemachine: the last member function of Statemachine called, with what it invoked
    instances   \* two Crc16 objects: for each its template arguments, register, input and last result

vars == <<width, value, reversed, restored, swapPc, swapped, unswapped,
          engine, crc_, fed, calls, lastOp, result, framed,
          loopCount, Index, args, wrapperCalls, loopPc,
          previousState_, currentState_, invoked, lastCall,
          instances>>

bitSwapVars == <<width, value, reversed, restored, swapPc, swapped, unswapped>>
crcVars == <<engine, crc_, fed, calls, lastOp, result, framed>>
loopVars == <<loopCount, Index, args, wrapperCalls, loopPc>>
machineVars == <<previousState_, currentState_, invoked, lastCall>>

----------------------------------------------------------------------------
(* Bounds *)

\* bitSwap on 32 and 64 bits is applied to every value with at most MaxWeight
\* bits set and to every value with at most MaxWeight bits cleared.
MaxWeight == 2

\* process() is handed buffers of at most MaxChunk sample octets, at most
\* MaxLen sample octets in total, in at most MaxCalls calls.
MaxChunk == 2
MaxLen == 3
MaxCalls == 3
MaxSteps == 4

----------------------------------------------------------------------------
(* Fixed-width unsigned arithmetic *)

\* CHAR_BIT, checked by the static_assert of crc16.hpp.
CHAR_BIT == 8

Positions(w) == 0 .. (w - 1)

\* The w-bit value of the integer literal n (0 <= n < 2^w, w <= 16).
Word(n, w) == {i \in Positions(w) : (n \div 2^i) % 2 = 1}

\* The value of a hexadecimal literal given by its 16-bit groups, most
\* significant group first: 0xffff0000 is Literal(<<\hffff, \h0000>>).
Literal(groups) ==
    UNION {{i + 16 * (Len(groups) - k) : i \in Word(groups[k], 16)} : k \in 1 .. Len(groups)}

\* The integer a value of at most 16 bits stands for.
RECURSIVE Number(_)
Number(a) ==
    IF a = {} THEN 0
    ELSE LET i == CHOOSE j \in a : \A k \in a : k <= j
         IN 2^i + Number(a \ {i})

\* Integral conversion to an unsigned type of w bits: zero extension or truncation.
Convert(a, w) == {i \in Positions(w) : i \in a}

\* Operand width after the integral promotions: types narrower than int
\* (32 bits) are promoted to int, wider ones are kept.
Promoted(w) == IF w < 32 THEN 32 ELSE w

And(a, b) == {i \in a : i \in b}
Or(a, b, w) == {i \in Positions(w) : i \in a \/ i \in b}
Xor(a, b, w) == {i \in Positions(w) : (i \in a) # (i \in b)}
Not(a, w) == {i \in Positions(w) : i \notin a}
ShiftRight(a, s, w) == {i \in Positions(w) : (i + s) \in a}
ShiftLeft(a, s, w) == {i \in Positions(w) : (i - s) \in a}

----------------------------------------------------------------------------
(* bitSwap.hpp *)

\* Mutant of SwapBlocks: the low blocks are not moved up.
SwapBlocksHighOnly(workValue, mask, shift, w) ==
    LET p == Promoted(w)
        v == Convert(workValue, p)
        m == Convert(mask, p)
    IN  Convert(Or(ShiftRight(And(v, m), shift, p), And(v, Not(m, p)), p), w)

\* Mutant of SwapBlocks: the mask is not complemented for the left shift.
SwapBlocksNoComplement(workValue, mask, shift, w) ==
    LET p == Promoted(w)
        v == Convert(workValue, p)
        m == Convert(mask, p)
    IN  Convert(Or(ShiftRight(And(v, m), shift, p),
                   ShiftLeft(And(v, m), shift, p), p), w)

\* workValue = ((workValue & mask) >> shift) | ((workValue & ~mask) << shift);
\* for a workValue and mask of a w-bit type.  The operands are promoted, the
\* assignment converts the result back to w bits.
SwapBlocks(workValue, mask, shift, w) ==
    LET p == Promoted(w)
        v == Convert(workValue, p)
        m == Convert(mask, p)
    IN  Convert(Or(ShiftRight(And(v, m), shift, p),
                   ShiftLeft(And(v, Not(m, p)), shift, p), p), w)

bitSwap8(v) ==
    LET w1 == SwapBlocks(v, Word(\hf0, 8), 4, 8)
        w2 == SwapBlocks(w1, Word(\hcc, 8), 2, 8)
        w3 == SwapBlocks(w2, Word(\haa, 8), 1, 8)
    IN  w3

\* Mutant of bitSwap16: the pairs of bits are not swapped.
bitSwap16SkipStep(v) ==
    LET w1 == SwapBlocks(v, Word(\hff00, 16), 8, 16)
        w2 == SwapBlocks(w1, Word(\hf0f0, 16), 4, 16)
        w4 == SwapBlocks(w2, Word(\haaaa, 16), 1, 16)
    IN  w4

bitSwap16(v) ==
    LET w1 == SwapBlocks(v, Word(\hff00, 16), 8, 16)
        w2 == SwapBlocks(w1, Word(\hf0f0, 16), 4, 16)
        w3 == SwapBlocks(w2, Word(\hcccc, 16), 2, 16)
        w4 == SwapBlocks(w3, Word(\haaaa, 16), 1, 16)
    IN  w4

bitSwap32(v) ==
    LET w1 == SwapBlocks(v, Literal(<<\hffff, \h0000>>), 16, 32)
        w2 == SwapBlocks(w1, Literal(<<\hff00, \hff00>>), 8, 32)
        w3 == SwapBlocks(w2, Literal(<<\hf0f0, \hf0f0>>), 4, 32)
        w4 == SwapBlocks(w3, Literal(<<\hcccc, \hcccc>>), 2, 32)
        w5 == SwapBlocks(w4, Literal(<<\haaaa, \haaaa>>), 1, 32)
    IN  w5

\* Mutant of bitSwap64: the 16-bit blocks are not swapped.
bitSwap64SkipStep(v) ==
    LET w1 == SwapBlocks(v, Literal(<<\hffff, \hffff, \h0000, \h0000>>), 32, 64)
        w3 == SwapBlocks(w1, Literal(<<\hff00, \hff00, \hff00, \hff00>>), 8, 64)
        w4 == SwapBlocks(w3, Literal(<<\hf0f0, \hf0f0, \hf0f0, \hf0f0>>), 4, 64)
        w5 == SwapBlocks(w4, Literal(<<\hcccc, \hcccc, \hcccc, \hcccc>>), 2, 64)
        w6 == SwapBlocks(w5, Literal(<<\haaaa, \haaaa, \haaaa, \haaaa>>), 1, 64)
    IN  w6

bitSwap64(v) ==
    LET w1 == SwapBlocks(v, Literal(<<\hffff, \hffff, \h0000, \h0000>>), 32, 64)
        w2 == SwapBlocks(w1, Literal(<<\hffff, \h0000, \hffff, \h0000>>), 16, 64)
        w3 == SwapBlocks(w2, Literal(<<\hff00, \hff00, \hff00, \hff00>>), 8, 64)
        w4 == SwapBlocks(w3, Literal(<<\hf0f0, \hf0f0, \hf0f0, \hf0f0>>), 4, 64)
        w5 == SwapBlocks(w4, Literal(<<\hcccc, \hcccc, \hcccc, \hcccc>>), 2, 64)
        w6 == SwapBlocks(w5, Literal(<<\haaaa, \haaaa, \haaaa, \haaaa>>), 1, 64)
    IN  w6

\* Overload resolution of Helpers::bitSwap on the argument type.
bitSwap(v, w) ==
    CASE w = 8 -> bitSwap8(v)
      [] w = 16 -> bitSwap16(v)
      [] w = 32 -> bitSwap32(v)
      [] w = 64 -> bitSwap64(v)

----------------------------------------------------------------------------
(* byteSwap.hpp *)

byteSwap8(v) == v

byteSwap16(v) ==
    LET w1 == SwapBlocks(v, Word(\hff00, 16), 8, 16)
    IN  w1

\* Mutant of byteSwap32: the octets of each half are not swapped.
byteSwap32HalvesOnly(v) ==
    LET w1 == SwapBlocks(v, Literal(<<\hffff, \h0000>>), 16, 32)
    IN  w1

byteSwap32(v) ==
    LET w1 == SwapBlocks(v, Literal(<<\hffff, \h0000>>), 16, 32)
        w2 == SwapBlocks(w1, Literal(<<\hff00, \hff00>>), 8, 32)
    IN  w2

byteSwap64(v) ==
    LET w1 == SwapBlocks(v, Literal(<<\hffff, \hffff, \h0000, \h0000>>), 32, 64)
        w2 == SwapBlocks(w1, Literal(<<\hffff, \h0000, \hffff, \h0000>>), 16, 64)
        w3 == SwapBlocks(w2, Literal(<<\hff00, \hff00, \hff00, \hff00>>), 8, 64)
    IN  w3

\* Overload resolution of Helpers::byteSwap on the argument type.
byteSwap(v, w) ==
    CASE w = 8 -> byteSwap8(v)
      [] w = 16 -> byteSwap16(v)
      [] w = 32 -> byteSwap32(v)
      [] w = 64 -> byteSwap64(v)

----------------------------------------------------------------------------
(* crc16.hpp *)

\* Mutant of BitSwapOf: the primary template is not specialised for reflect.
BitSwapOfNever(reflect, v, w) == v

\* Internal_::BitSwap<T, reflect>::of(value) for a T of w bits.
BitSwapOf(reflect, v, w) == IF reflect THEN bitSwap(v, w) ELSE v

\* The template arguments of the four typedefs of the catalog.
Crc16Xmodem ==
    [polynomial |-> Word(\h1021, 16), initialCrc |-> Word(\h0000, 16),
     reflectIn |-> FALSE, reflectOut |-> FALSE, xorOut |-> Word(\h0000, 16)]

Crc16Kermit ==
    [polynomial |-> Word(\h1021, 16), initialCrc |-> Word(\h0000, 16),
     reflectIn |-> TRUE, reflectOut |-> TRUE, xorOut |-> Word(\h0000, 16)]

Crc16Ibm3740 ==
    [polynomial |-> Word(\h1021, 16), initialCrc |-> Word(\hffff, 16),
     reflectIn |-> FALSE, reflectOut |-> FALSE, xorOut |-> Word(\h0000, 16)]

\* Mutant of Crc16SpiFujitsu: the initial value is off by one bit.
Crc16SpiFujitsuOtherInit ==
    [polynomial |-> Word(\h1021, 16), initialCrc |-> Word(\h1d0e, 16),
     reflectIn |-> FALSE, reflectOut |-> FALSE, xorOut |-> Word(\h0000, 16)]

Crc16SpiFujitsu ==
    [polynomial |-> Word(\h1021, 16), initialCrc |-> Word(\h1d0f, 16),
     reflectIn |-> FALSE, reflectOut |-> FALSE, xorOut |-> Word(\h0000, 16)]

Catalog == {Crc16Xmodem, Crc16Kermit, Crc16Ibm3740, Crc16SpiFujitsu}

\* Further instantiations of the class template Crc16: every combination of
\* the two reflect flags, other polynomials, and output masks that are not
\* their own bit reversal.
OtherInstantiations ==
    {[polynomial |-> Word(\h8005, 16), initialCrc |-> Word(\hffff, 16),
      reflectIn |-> TRUE, reflectOut |-> TRUE, xorOut |-> Word(\h0001, 16)],
     [polynomial |-> Word(\h1021, 16), initialCrc |-> Word(\h800d, 16),
      reflectIn |-> FALSE, reflectOut |-> TRUE, xorOut |-> Word(\h00ff, 16)],
     [polynomial |-> Word(\h3d65, 16), initialCrc |-> Word(\h0001, 16),
      reflectIn |-> TRUE, reflectOut |-> FALSE, xorOut |-> Word(\hffff, 16)]}

Engines == Catalog \cup OtherInstantiations

\* Template argument lists that name a value of more than 16 bits:
\* Crc16<0x11021, 0x0000, false, false, 0x0000> and the like.
Oversized ==
    {[polynomial |-> Word(\h11021, 17), initialCrc |-> Word(\h0000, 16),
      reflectIn |-> FALSE, reflectOut |-> FALSE, xorOut |-> Word(\h0000, 16)],
     [polynomial |-> Word(\h1021, 16), initialCrc |-> Word(\h1ffff, 17),
      reflectIn |-> FALSE, reflectOut |-> FALSE, xorOut |-> Word(\h0000, 16)],
     [polynomial |-> Word(\h1021, 16), initialCrc |-> Word(\h0000, 16),
      reflectIn |-> TRUE, reflectOut |-> TRUE, xorOut |-> Word(\h10000, 17)]}

\* Mutant of Instantiable: the template parameters are of a wider type.
InstantiableWide(e) == TRUE

\* polynomial, initialCrc and xorOut are template parameters of type
\* uint16_t: an argument that does not fit is a narrowing conversion and the
\* instantiation does not compile.
Instantiable(e) ==
    /\ e.polynomial \subseteq Positions(16)
    /\ e.initialCrc \subseteq Positions(16)
    /\ e.xorOut \subseteq Positions(16)

\* Mutant of shiftBits: the polynomial is applied before the shift.
RECURSIVE shiftBitsXorFirst(_, _, _)
shiftBitsXorFirst(e, crc, bitIndex) ==
    IF bitIndex < CHAR_BIT
    THEN LET applyPolynomial == And(Word(\h8000, 16), Convert(crc, 32)) # {}
             applied == IF applyPolynomial
                        THEN Convert(Xor(Convert(crc, 32), Convert(e.polynomial, 32), 32), 16)
                        ELSE crc
         IN  IF applyPolynomial
             THEN shiftBitsXorFirst(e, Convert(ShiftLeft(Convert(applied, 32), 1, 32), 16), bitIndex + 1)
             ELSE shiftBitsXorFirst(e, Convert(ShiftLeft(Convert(applied, 32), 1, 32), 16), bitIndex + 1)
    ELSE crc

\* Mutant of shiftBits: the shifted register is kept in an int, the bit
\* shifted out of the 16 bits is not discarded.
RECURSIVE shiftBitsWide(_, _, _)
shiftBitsWide(e, crc, bitIndex) ==
    IF bitIndex < CHAR_BIT
    THEN LET applyPolynomial == And(Word(\h8000, 16), Convert(crc, 32)) # {}
             shifted == ShiftLeft(Convert(crc, 32), 1, 32)
         IN  IF applyPolynomial
             THEN shiftBitsWide(e, Xor(shifted, Convert(e.polynomial, 32), 32), bitIndex + 1)
             ELSE shiftBitsWide(e, shifted, bitIndex + 1)
    ELSE crc

\* The inner for loop of process(), from bitIndex up to CHAR_BIT:
\*     applyPolynomial = (0 != (0x8000 & crc_)); crc_ <<= 1;
\*     if (applyPolynomial) crc_ ^= polynomial;
\* crc_ is promoted to int in each expression and converted back to uint16_t
\* by each assignment.
RECURSIVE shiftBits(_, _, _)
shiftBits(e, crc, bitIndex) ==
    IF bitIndex < CHAR_BIT
    THEN LET applyPolynomial == And(Word(\h8000, 16), Convert(crc, 32)) # {}
             shifted == Convert(ShiftLeft(Convert(crc, 32), 1, 32), 16)
         IN  IF applyPolynomial
             THEN shiftBits(e, Convert(Xor(Convert(shifted, 32), Convert(e.polynomial, 32), 32), 16),
                            bitIndex + 1)
             ELSE shiftBits(e, shifted, bitIndex + 1)
    ELSE crc

\* Mutant of processOctet: the octet is not shifted to the upper byte.
processOctetLow(e, crc, datum) ==
    LET octet == BitSwapOf(e.reflectIn, Word(datum, 8), 8)
        start == Convert(Xor(Convert(crc, 32), Convert(Convert(octet, 16), 32), 32), 16)
    IN  shiftBits(e, start, 0)

\* Mutant of processOctet: only the low seven bits of the octet reach the register.
processOctetSevenBits(e, crc, datum) ==
    LET octet == BitSwapOf(e.reflectIn, Word(datum, 8), 8) \ {7}
        shiftedIn == ShiftLeft(Convert(Convert(octet, 16), 32), 8, 32)
        start == Convert(Xor(Convert(crc, 32), shiftedIn, 32), 16)
    IN  shiftBits(e, start, 0)

\* The body of the outer for loop of process() for the octet *datumPointer.
processOctet(e, crc, datum) ==
    LET octet == BitSwapOf(e.reflectIn, Word(datum, 8), 8)
        shiftedIn == ShiftLeft(Convert(Convert(octet, 16), 32), 8, 32)
        start == Convert(Xor(Convert(crc, 32), shiftedIn, 32), 16)
    IN  shiftBits(e, start, 0)

\* Mutant of process: the loop stops one octet before the end of the buffer.
RECURSIVE processSkipLast(_, _, _)
processSkipLast(e, crc, data) ==
    IF Len(data) <= 1 THEN crc
    ELSE LET next == processOctet(e, crc, Head(data))
         IN  IF next = {}
             THEN processSkipLast(e, {}, Tail(data))
             ELSE processSkipLast(e, next, Tail(data))

\* Mutant of process: every call ends by shifting one more octet of zeros
\* through the register.
RECURSIVE processAugmenting(_, _, _)
processAugmenting(e, crc, data) ==
    IF data = <<>> THEN shiftBits(e, crc, 0)
    ELSE LET next == processOctet(e, crc, Head(data))
         IN  IF next = {}
             THEN processAugmenting(e, {}, Tail(data))
             ELSE processAugmenting(e, next, Tail(data))

\* process(data, octectCount): the register after the call, for a register
\* crc before it.  data is the sequence of the octectCount octets.  (The test
\* of next has the same result on both branches: it makes the register be
\* evaluated after each octet, as the loop does.)
RECURSIVE process(_, _, _)
process(e, crc, data) ==
    IF data = <<>> THEN crc
    ELSE LET next == processOctet(e, crc, Head(data))
         IN  IF next = {}
             THEN process(e, {}, Tail(data))
             ELSE process(e, next, Tail(data))

\* Mutant of get: the mask is applied before the reflection.
getXorFirst(e, crc) ==
    BitSwapOf(e.reflectOut,
              Convert(Xor(Convert(e.xorOut, 32), Convert(crc, 32), 32), 16), 16)

\* get(): the value returned for a register crc.
get(e, crc) ==
    Convert(Xor(Convert(e.xorOut, 32),
                Convert(BitSwapOf(e.reflectOut, crc, 16), 32), 32), 16)

----------------------------------------------------------------------------
(* A caller of bitSwap: reverses a value, then reverses the result again. *)

Widths == {8, 16, 32, 64}

None == "none"

\* The sets of at most n positions below w.
RECURSIVE UpTo(_, _)
UpTo(n, w) ==
    IF n = 0 THEN {{}}
    ELSE LET smaller == UpTo(n - 1, w)
         IN  smaller \cup {s \cup {i} : s \in smaller, i \in Positions(w)}

\* The arguments bitSwap is called with: every value of 8 and of 16 bits;
\* of 32 and 64 bits the values with few bits set or few bits cleared.
Arguments(w) ==
    IF w <= 16 THEN SUBSET Positions(w)
    ELSE UpTo(MaxWeight, w) \cup {Not(s, w) : s \in UpTo(MaxWeight, w)}

InitBitSwap ==
    /\ width \in Widths
    /\ value \in Arguments(width)
    /\ reversed = None
    /\ restored = None
    /\ swapPc = "start"
    /\ swapped = None
    /\ unswapped = None

SwapOnce ==
    /\ swapPc = "start"
    /\ reversed' = bitSwap(value, width)
    /\ swapPc' = "once"
    /\ UNCHANGED <<width, value, restored, swapped, unswapped>>

SwapTwice ==
    /\ swapPc = "once"
    /\ restored' = bitSwap(reversed, width)
    /\ swapPc' = "twice"
    /\ UNCHANGED <<width, value, reversed, swapped, unswapped>>

----------------------------------------------------------------------------
(* A caller of byteSwap: swaps a value, then swaps the result again. *)

InitByteSwap ==
    /\ width \in Widths
    /\ value \in Arguments(width)
    /\ reversed = None
    /\ restored = None
    /\ swapPc = "start"
    /\ swapped = None
    /\ unswapped = None

ByteSwapOnce ==
    /\ swapPc = "start"
    /\ swapped' = byteSwap(value, width)
    /\ swapPc' = "once"
    /\ UNCHANGED <<width, value, reversed, restored, unswapped>>

ByteSwapTwice ==
    /\ swapPc = "once"
    /\ unswapped' = byteSwap(swapped, width)
    /\ swapPc' = "twice"
    /\ UNCHANGED <<width, value, reversed, restored, swapped>>

----------------------------------------------------------------------------
(* A caller of Crc16: constructs an engine, then calls process() and get() *)
(* in any order.                                                           *)

\* The ASCII octets of "123456789".
CheckInput == <<\h31, \h32, \h33, \h34, \h35, \h36, \h37, \h38, \h39>>

SampleOctets == {\h00, \h01, \h80, \hff}

SampleBuffers == UNION {[1 .. n -> SampleOctets] : n \in 0 .. MaxChunk}

\* The buffers that continue the check input after the octets s.
CheckBuffers(s) ==
    IF Len(s) <= Len(CheckInput) /\ s = SubSeq(CheckInput, 1, Len(s))
    THEN {SubSeq(CheckInput, Len(s) + 1, j) : j \in Len(s) .. Len(CheckInput)}
    ELSE {}

\* The two octets of a checksum c in the order they are transmitted: high
\* octet first for the MSB-first engines, low octet first for the LSB-first
\* (reflected) ones.
WireOctets(e, c) ==
    LET high == Number(ShiftRight(c, 8, 16))
        low == Number(Convert(c, 8))
    IN  IF e.reflectOut THEN <<low, high>> ELSE <<high, low>>

\* Crc16(): crc_(initialCrc)
InitCrc ==
    /\ engine \in Engines
    /\ crc_ = engine.initialCrc
    /\ fed = <<>>
    /\ calls = 0
    /\ lastOp = "new"
    /\ result = None
    /\ framed = FALSE

\* void process(uint8_t const * const data, size_t const octectCount)
Process(data) ==
    /\ calls < MaxCalls
    /\ crc_' = process(engine, crc_, data)
    /\ fed' = fed \o data
    /\ calls' = calls + 1
    /\ lastOp' = "process"
    /\ result' = None
    /\ framed' = (data = WireOctets(engine, get(engine, crc_)))
    /\ UNCHANGED engine

\* Mutant of Get: the returned value is stored in the register.
GetStoring ==
    /\ result' = get(engine, crc_)
    /\ crc_' = get(engine, crc_)
    /\ lastOp' = "get"
    /\ UNCHANGED <<engine, fed, calls, framed>>

\* uint16_t get() const
Get ==
    /\ result' = get(engine, crc_)
    /\ lastOp' = "get"
    /\ UNCHANGED <<engine, crc_, fed, calls, framed>>

\* The buffers the caller hands to process(): sample octets, the next part
\* of the check input, or the checksum of what was processed so far.
Buffers ==
    {b \in SampleBuffers : Len(fed) + Len(b) <= MaxLen}
        \cup CheckBuffers(fed)
        \cup {b \in {WireOctets(engine, get(engine, crc_))} :
                  Len(fed) <= MaxLen \/ fed = CheckInput}

----------------------------------------------------------------------------
(* A caller with two Crc16 objects, each fed from a buffer of its own. *)

Instances == {1, 2}

\* A Crc16 object of class e after its constructor, and the caller's data for it.
New(e, data) ==
    [engine |-> e, crc_ |-> e.initialCrc, fed |-> <<>>, pending |-> data,
     lastOp |-> "new", result |-> None]

\* Mutant of Member: crc_ is one static member shared by all objects.
MemberStatic(objects, i, crc) ==
    [j \in DOMAIN objects |-> [objects[j] EXCEPT !.crc_ = crc]]

\* uint16_t crc_: a non-static data member, an assignment to it changes the
\* object i it is made in.
Member(objects, i, crc) == [objects EXCEPT ![i].crc_ = crc]

\* process(data, octectCount) on object i, with the next n octets of its buffer
InstanceProcess(i, n) ==
    LET object == instances[i]
        data == SubSeq(object.pending, 1, n)
    IN  /\ n >= 1
        /\ n <= Len(object.pending)
        /\ instances' =
               Member([instances EXCEPT ![i].fed = object.fed \o data,
                                        ![i].pending = SubSeq(object.pending, n + 1,
                                                              Len(object.pending)),
                                        ![i].lastOp = "process",
                                        ![i].result = None],
                      i, process(object.engine, object.crc_, data))

\* get() on object i
InstanceGet(i) ==
    instances' = [instances EXCEPT ![i].lastOp = "get",
                                   ![i].result = get(instances[i].engine, instances[i].crc_)]

\* The classes of the two objects: the same one twice, and different ones.
EnginePairs ==
    {<<Crc16Xmodem, Crc16Xmodem>>, <<Crc16Xmodem, Crc16Kermit>>, <<Crc16Ibm3740, Crc16SpiFujitsu>>}

\* The buffer of n octets that holds odd and even in turn.
Alternating(n, odd, even) == [k \in 1 .. n |-> IF k % 2 = 1 THEN odd ELSE even]

PairOctets == {\h01, \h80}

PairInputs == {Alternating(MaxLen, odd, even) : odd \in PairOctets, even \in PairOctets}

\* Two objects are constructed; the caller holds a buffer for each.
InitPair ==
    \E engines \in EnginePairs, inputs \in PairInputs \X PairInputs :
        instances = [i \in Instances |-> New(engines[i], inputs[i])]

\* The messages sent (two octets, repeated in turn), the octets a
\* transmission error inverts bits of (every single bit, the two outer bits,
\* all bits), and the errors: in one octet, or in two adjacent ones.
DetectOctets == {\h00, \hff}

Messages ==
    {Alternating(n, odd, even) : n \in 1 .. MaxLen, odd \in DetectOctets, even \in DetectOctets}

ErrorOctets == {\h01, \h02, \h04, \h08, \h10, \h20, \h40, \h80, \h81, \hff}

AdjacentOctets == {\h01, \h80, \hff}

Bursts == {<<d>> : d \in ErrorOctets} \cup (AdjacentOctets \X AdjacentOctets)

\* The message with the bits of burst inverted from octet position on.
Corrupt(message, position, burst) ==
    [k \in 1 .. Len(message) |->
        IF k >= position /\ k < position + Len(burst)
        THEN Number(Xor(Word(message[k], 8), Word(burst[k - position + 1], 8), 8))
        ELSE message[k]]

\* Two objects of one catalog class; the first is to process a message, the
\* second the same message as received with a transmission error.
InitDetect ==
    \E e \in Catalog, message \in Messages, burst \in Bursts, position \in 1 .. MaxLen :
        /\ position + Len(burst) - 1 <= Len(message)
        /\ instances = [i \in Instances |->
                            New(e, IF i = 1 THEN message ELSE Corrupt(message, position, burst))]

----------------------------------------------------------------------------
(* tmpLoop.hpp *)

\* The values of the template parameter Index (uint8_t).
Indices == 0 .. 255

\* The argument packs the caller passes.
ArgumentPacks == {<<>>, <<7>>}

\* Conversion of a template argument to uint8_t.
ToUint8(n) == n % 256

\* A caller writes Loop<loopCount, Wrapper, Args...>::impl(args...).
\* Loop<0, ...>::impl is deleted: that call is ill-formed.
InitLoop ==
    /\ loopCount \in Indices
    /\ Index = loopCount
    /\ args \in ArgumentPacks
    /\ wrapperCalls = <<>>
    /\ loopPc = IF loopCount = 0 THEN "deleted" ELSE "call"

\* Mutant of LoopImpl: Wrapper is instantiated with Index instead of Index - 1.
LoopImplOffByOne ==
    /\ loopPc = "call"
    /\ Index \notin {0, 1}
    /\ wrapperCalls' = Append(wrapperCalls, <<ToUint8(Index), args>>)
    /\ Index' = ToUint8(Index - 1)
    /\ UNCHANGED <<loopCount, args, loopPc>>

\* The primary template: Loop<Index, ...>::impl calls
\* Wrapper<Index - 1>::impl(args...) and then Loop<Index - 1, ...>::impl(args...),
\* its last statement.
LoopImpl ==
    /\ loopPc = "call"
    /\ Index \notin {0, 1}
    /\ wrapperCalls' = Append(wrapperCalls, <<ToUint8(Index - 1), args>>)
    /\ Index' = ToUint8(Index - 1)
    /\ UNCHANGED <<loopCount, args, loopPc>>

\* The specialization for Index 1: Loop<1, ...>::impl calls
\* Wrapper<0>::impl(args...) and returns.
LoopEnd ==
    /\ loopPc = "call"
    /\ Index = 1
    /\ wrapperCalls' = Append(wrapperCalls, <<0, args>>)
    /\ loopPc' = "done"
    /\ UNCHANGED <<loopCount, Index, args>>

----------------------------------------------------------------------------
(* statemachine.hpp *)

\* The states the user derives from AbstractState; process() of each may
\* return a reference to any of them.
UserStates == {"stateRed", "stateGreen", "stateYellow"}

\* The static member noopState_ of Statemachine.
noopState_ == "noopState_"

\* A call of the member function fn of state, recorded in the order made.
\* NoopState's init() and deinit() are empty, a user state's are the user's.
Invoke(log, fn, state) == Append(log, <<fn, state>>)

\* The reference process() of state returns: NoopState::process returns
\* *this, a user state's process returns what the user chooses.
StateProcess(state, chosen) == IF state = noopState_ THEN noopState_ ELSE chosen

\* What lastCall keeps of a call: the member function called, the number of
\* calls so far, the length of invoked and the value of currentState_ before
\* the call, the state the call leaves in currentState_ (startState, or the
\* state process() returned), and the function and state of the call before.
Call(op, state) ==
    [op |-> op, count |-> lastCall.count + 1, from |-> Len(invoked),
     current |-> currentState_, state |-> state,
     priorOp |-> lastCall.op, priorState |-> lastCall.state]

\* Statemachine(startState)
InitMachine ==
    /\ previousState_ = noopState_
    /\ currentState_ \in UserStates
    /\ invoked = <<>>
    /\ lastCall = [op |-> "new", count |-> 0, from |-> 0,
                   current |-> None, state |-> currentState_,
                   priorOp |-> None, priorState |-> None]

\* Mutant of MachineProcess: the comparison of previousState_ with
\* currentState_ is dropped, every call deinitialises and initialises.
MachineProcessAlways(chosen) ==
    /\ lastCall.count < MaxSteps
    /\ LET initialised == Invoke(Invoke(invoked, "deinit", previousState_), "init", currentState_)
           returned == StateProcess(currentState_, chosen)
       IN  /\ invoked' = Invoke(initialised, "process", currentState_)
           /\ previousState_' = currentState_
           /\ currentState_' = returned
           /\ lastCall' = Call("process", returned)

\* Statemachine::process(data)
MachineProcess(chosen) ==
    /\ lastCall.count < MaxSteps
    /\ LET changed == previousState_ # currentState_
           initialised == IF changed
                          THEN Invoke(Invoke(invoked, "deinit", previousState_), "init", currentState_)
                          ELSE invoked
           returned == StateProcess(currentState_, chosen)
       IN  /\ invoked' = Invoke(initialised, "process", currentState_)
           /\ previousState_' = IF changed THEN currentState_ ELSE previousState_
           /\ currentState_' = returned
           /\ lastCall' = Call("process", returned)

\* Mutant of MachineReset: deinit() is called on currentState_.
MachineResetCurrent(startState) ==
    /\ lastCall.count < MaxSteps
    /\ invoked' = Invoke(invoked, "deinit", currentState_)
    /\ previousState_' = noopState_
    /\ currentState_' = startState
    /\ lastCall' = Call("reset", startState)

\* Mutant of MachineReset: previousState_ is not set to &noopState_.
MachineResetKeepsPrevious(startState) ==
    /\ lastCall.count < MaxSteps
    /\ invoked' = Invoke(invoked, "deinit", previousState_)
    /\ previousState_' = previousState_
    /\ currentState_' = startState
    /\ lastCall' = Call("reset", startState)

\* Statemachine::reset(data, startState)
MachineReset(startState) ==
    /\ lastCall.count < MaxSteps
    /\ invoked' = Invoke(invoked, "deinit", previousState_)
    /\ previousState_' = noopState_
    /\ currentState_' = startState
    /\ lastCall' = Call("reset", startState)

----------------------------------------------------------------------------
(* Specifications *)

IdleCrc ==
    /\ engine = None
    /\ crc_ = {}
    /\ fed = <<>>
    /\ calls = 0
    /\ lastOp = None
    /\ result = None
    /\ framed = FALSE

IdleBitSwap ==
    /\ width = None
    /\ value = {}
    /\ reversed = None
    /\ restored = None
    /\ swapPc = None
    /\ swapped = None
    /\ unswapped = None

IdleLoop ==
    /\ loopCount = None
    /\ Index = None
    /\ args = <<>>
    /\ wrapperCalls = <<>>
    /\ loopPc = None

IdleMachine ==
    /\ previousState_ = None
    /\ currentState_ = None
    /\ invoked = <<>>
    /\ lastCall = None

IdleInstances == instances = None

Init == InitCrc /\ IdleBitSwap /\ IdleLoop /\ IdleMachine /\ IdleInstances

Next ==
    \/ \E data \in Buffers : Process(data)
            /\ UNCHANGED <<bitSwapVars, loopVars, machineVars, instances>>
    \/ Get /\ UNCHANGED <<bitSwapVars, loopVars, machineVars, instances>>

Spec == Init /\ [][Next]_vars

NextBitSwap ==
    \/ SwapOnce /\ UNCHANGED <<crcVars, loopVars, machineVars, instances>>
    \/ SwapTwice /\ UNCHANGED <<crcVars, loopVars, machineVars, instances>>

InitSwaps == InitBitSwap /\ IdleCrc /\ IdleLoop /\ IdleMachine /\ IdleInstances

SpecBitSwap == InitSwaps /\ [][NextBitSwap]_vars

NextByteSwap ==
    \/ ByteSwapOnce /\ UNCHANGED <<crcVars, loopVars, machineVars, instances>>
    \/ ByteSwapTwice /\ UNCHANGED <<crcVars, loopVars, machineVars, instances>>

InitByteSwaps == InitByteSwap /\ IdleCrc /\ IdleLoop /\ IdleMachine /\ IdleInstances

SpecByteSwap == InitByteSwaps /\ [][NextByteSwap]_vars

\* Instantiating Crc16 with a requested template argument list: either the
\* instantiation compiles and the caller goes on as in Spec, or it does not
\* and there is no engine to call.
Requested == Catalog \cup Oversized

InitConfig ==
    /\ engine \in Requested
    /\ crc_ = IF Instantiable(engine) THEN engine.initialCrc ELSE {}
    /\ fed = <<>>
    /\ calls = 0
    /\ lastOp = IF Instantiable(engine) THEN "new" ELSE "error"
    /\ result = None
    /\ framed = FALSE
    /\ IdleBitSwap /\ IdleLoop /\ IdleMachine /\ IdleInstances

NextConfig ==
    \/ lastOp # "error" /\ \E data \in Buffers : Process(data)
            /\ UNCHANGED <<bitSwapVars, loopVars, machineVars, instances>>
    \/ lastOp # "error" /\ Get /\ UNCHANGED <<bitSwapVars, loopVars, machineVars, instances>>

SpecConfig == InitConfig /\ [][NextConfig]_vars

InitLoops == InitLoop /\ IdleCrc /\ IdleBitSwap /\ IdleMachine /\ IdleInstances

NextLoop ==
    \/ LoopImpl /\ UNCHANGED <<crcVars, bitSwapVars, machineVars, instances>>
    \/ LoopEnd /\ UNCHANGED <<crcVars, bitSwapVars, machineVars, instances>>

\* The instantiations are straight-line code: an impl() that is called runs.
SpecLoop == InitLoops /\ [][NextLoop]_vars /\ WF_vars(NextLoop)

InitMachines == InitMachine /\ IdleCrc /\ IdleBitSwap /\ IdleLoop /\ IdleInstances

NextMachine ==
    \/ \E chosen \in UserStates : MachineProcess(chosen)
            /\ UNCHANGED <<crcVars, bitSwapVars, loopVars, instances>>
    \/ \E startState \in UserStates : MachineReset(startState)
            /\ UNCHANGED <<crcVars, bitSwapVars, loopVars, instances>>

SpecMachine == InitMachines /\ [][NextMachine]_vars

InitPairs == InitPair /\ IdleCrc /\ IdleBitSwap /\ IdleLoop /\ IdleMachine

NextPair ==
    \/ \E i \in Instances, n \in 1 .. MaxChunk : InstanceProcess(i, n)
            /\ UNCHANGED <<crcVars, bitSwapVars, loopVars, machineVars>>
    \/ \E i \in Instances : InstanceGet(i)
            /\ UNCHANGED <<crcVars, bitSwapVars, loopVars, machineVars>>

SpecPair == InitPairs /\ [][NextPair]_vars

InitDetects == InitDetect /\ IdleCrc /\ IdleBitSwap /\ IdleLoop /\ IdleMachine

NextDetect ==
    \/ \E i \in Instances : InstanceProcess(i, Len(instances[i].pending))
            /\ UNCHANGED <<crcVars, bitSwapVars, loopVars, machineVars>>
    \/ \E i \in Instances : InstanceGet(i)
            /\ UNCHANGED <<crcVars, bitSwapVars, loopVars, machineVars>>

SpecDetect == InitDetects /\ [][NextDetect]_vars

----------------------------------------------------------------------------
(* Claims about bitSwap *)

\* C4: for every width N and every N-bit value x, bit i of bitSwap(x) equals
\* bit N-1-i of x for every i in 0..N-1, and the result has no bit outside
\* the N bits of its type.
BitSwapReversesBits ==
    swapPc # "start" =>
        /\ reversed \subseteq Positions(width)
        /\ \A i \in Positions(width) : (i \in reversed) <=> ((width - 1 - i) \in value)

\* C4 witness: a 64-bit value with two bits in its low half has been reversed
\* into one with two bits in its high half.
BitSwapReversesBitsWitness ==
    /\ swapPc = "once"
    /\ width = 64
    /\ value = {3, 17}
    /\ reversed = {46, 60}

\* C5: for every width N and every N-bit value x, bitSwap(bitSwap(x)) = x.
BitSwapInvolution ==
    swapPc = "twice" => restored = value

\* C5 witness: a 32-bit value that is not its own reversal has been reversed twice.
BitSwapInvolutionWitness ==
    /\ swapPc = "twice"
    /\ width = 32
    /\ value = {0, 5}
    /\ reversed = {26, 31}
    /\ restored = {0, 5}

\* C6: for every width N, bitSwap(0) = 0 and bitSwap(2^N - 1) = 2^N - 1.
BitSwapFixedPoints ==
    swapPc # "start" =>
        /\ value = {} => reversed = {}
        /\ value = Positions(width) => reversed = Positions(width)

\* C6 witness: the 16-bit value with all bits set has been reversed.
BitSwapFixedPointsWitness ==
    /\ swapPc = "once"
    /\ width = 16
    /\ value = Positions(16)
    /\ reversed = Positions(16)

----------------------------------------------------------------------------
(* Claims about Crc16 *)

\* C1: for each of the four catalog engines, process() over the 9 ASCII
\* octets of "123456789" on a freshly constructed engine followed by get()
\* returns the catalog check value: 0x31C3 for Crc16Xmodem, 0x2189 for
\* Crc16Kermit, 0x29B1 for Crc16Ibm3740, 0xE5CC for Crc16SpiFujitsu.
CheckValues ==
    (fed = CheckInput /\ lastOp = "get") =>
        /\ engine = Crc16Xmodem => result = Word(\h31c3, 16)
        /\ engine = Crc16Kermit => result = Word(\h2189, 16)
        /\ engine = Crc16Ibm3740 => result = Word(\h29b1, 16)
        /\ engine = Crc16SpiFujitsu => result = Word(\he5cc, 16)

\* C1 witness: the reflected catalog engine has returned its check value
\* after a single process() call over the whole check input.
CheckValuesWitness ==
    /\ engine = Crc16Kermit
    /\ fed = CheckInput
    /\ calls = 1
    /\ lastOp = "get"
    /\ result = Word(\h2189, 16)

\* C2: for every engine, every octet sequence and every partition of it into
\* consecutive, possibly empty, buffers, process() on the buffers in order on
\* a fresh engine and then get() returns what a single process() of the whole
\* sequence on a fresh engine followed by get() returns.
ChunkingInvariance ==
    lastOp = "get" => result = get(engine, process(engine, engine.initialCrc, fed))

\* C2 witness: get() after two octets were processed in three calls, one of
\* them with an empty buffer, on an engine that reflects and masks.
ChunkingInvarianceWitness ==
    /\ lastOp = "get"
    /\ calls = 3
    /\ Len(fed) = 2
    /\ engine.reflectIn /\ engine.reflectOut /\ engine.xorOut # {}
    /\ result # get(engine, engine.initialCrc)

\* C3: get() never changes the register: a get() leaves crc_ as it is, a
\* get() right after a get() returns the same value, only process() changes
\* the register, and the register depends only on the octets processed, not
\* on the get() calls made in between.
GetDoesNotMutate ==
    /\ [][/\ lastOp' = "get" => crc_' = crc_
          /\ (lastOp = "get" /\ lastOp' = "get") => result' = result
          /\ crc_' # crc_ => lastOp' = "process"]_vars
    /\ [](crc_ = process(engine, engine.initialCrc, fed))

\* C3 witness: the reflecting catalog engine has returned a value that differs
\* from its register, between two process() calls.
GetDoesNotMutateWitness ==
    /\ engine = Crc16Kermit
    /\ lastOp = "get"
    /\ calls = 2
    /\ Len(fed) = 3
    /\ result # crc_

\* The bit reversal of a w-bit value.
Reflected(a, w) == {w - 1 - i : i \in a}

\* C7: process() with octet count 0 leaves the register unchanged in every
\* state, and on a fresh engine process([]) followed by get() returns
\* xorOut XOR (reflectOut ? reversed initialCrc : initialCrc): 0x0000 for
\* Crc16Xmodem and 0xFFFF for Crc16Ibm3740.
ZeroLengthInput ==
    /\ [][(calls' # calls /\ fed' = fed) => crc_' = crc_]_vars
    /\ []((fed = <<>> /\ calls > 0 /\ lastOp = "get") =>
            /\ result = Xor(engine.xorOut,
                            IF engine.reflectOut THEN Reflected(engine.initialCrc, 16)
                                                 ELSE engine.initialCrc, 16)
            /\ engine = Crc16Xmodem => result = Word(\h0000, 16)
            /\ engine = Crc16Ibm3740 => result = Word(\hffff, 16))

\* C7 witness: get() after two empty process() calls on a fresh engine whose
\* initial value is not its own reversal.
ZeroLengthInputWitness ==
    /\ fed = <<>>
    /\ calls = 2
    /\ lastOp = "get"
    /\ engine.reflectOut
    /\ engine.initialCrc = Word(\h800d, 16)
    /\ result = Word(\hb0fe, 16)

\* C8: in every state get() returns exactly xorOut XOR (reflectOut ?
\* reversed register : register): the reflection is applied to the register
\* before the mask, not after.
GetFormula ==
    lastOp = "get" =>
        result = Xor(engine.xorOut,
                     IF engine.reflectOut THEN Reflected(crc_, 16) ELSE crc_, 16)

\* C8 witness: get() on a reflecting engine in a state where masking before
\* reflecting would have returned another value.
GetFormulaWitness ==
    /\ lastOp = "get"
    /\ Len(fed) = 2
    /\ engine.reflectOut
    /\ result # Reflected(Xor(engine.xorOut, crc_, 16), 16)

----------------------------------------------------------------------------
(* Polynomials over GF(2), as the sets of the exponents with coefficient 1 *)

Degree(p) == CHOOSE d \in p : \A i \in p : i <= d

\* p * x^k
TimesX(p, k) == {i + k : i \in p}

\* p + q
Plus(p, q) == (p \ q) \cup (q \ p)

\* The remainder of the division of p by g.
RECURSIVE Remainder(_, _)
Remainder(p, g) ==
    IF p = {} THEN {}
    ELSE IF Degree(p) < Degree(g) THEN p
    ELSE Remainder(Plus(p, TimesX(g, Degree(p) - Degree(g))), g)

\* G(x) = x^16 + polynomial
Generator(e) == {16} \cup e.polynomial

\* The octets read as one polynomial, most significant bit of the first
\* octet first, each octet bit-reversed before when reflectIn is set.
Message(e, data) ==
    UNION {TimesX(IF e.reflectIn THEN Reflected(Word(data[k], 8), 8) ELSE Word(data[k], 8),
                  8 * (Len(data) - k)) : k \in 1 .. Len(data)}

\* C9: for every engine and every sequence of n octets processed from a
\* fresh engine, the register is (initialCrc * x^(8n) + M'(x) * x^16) mod G(x)
\* over GF(2), G(x) = x^16 + polynomial, M' the message read most significant
\* bit first with each octet reversed when reflectIn is set; so for
\* Crc16Xmodem get() is M(x) * x^16 mod (x^16 + x^12 + x^5 + 1).
RegisterIsRemainder ==
    /\ crc_ = Remainder(Plus(TimesX(engine.initialCrc, 8 * Len(fed)),
                             TimesX(Message(engine, fed), 16)),
                        Generator(engine))
    /\ (engine = Crc16Xmodem /\ lastOp = "get") =>
           result = Remainder(TimesX(Message(engine, fed), 16), {16, 12, 5, 0})

\* C9 witness: three octets processed by an engine that reflects its input
\* and starts from a non-zero register.
RegisterIsRemainderWitness ==
    /\ Len(fed) = 3
    /\ fed[1] = 1
    /\ engine.reflectIn
    /\ engine.initialCrc # {}
    /\ lastOp = "process"
    /\ crc_ # {}

\* C10: for each of the four catalog engines and every octet sequence M, if c
\* is get() after M, then processing M followed by the two octets of c in
\* wire order (high octet first for Crc16Xmodem, Crc16Ibm3740 and
\* Crc16SpiFujitsu, low octet first for Crc16Kermit) and calling get()
\* returns the residue 0x0000.
Residue ==
    (framed /\ lastOp = "get" /\ engine \in Catalog) => result = Word(\h0000, 16)

\* C10 witness: the reflected catalog engine has processed the check input
\* followed by its check value 0x2189, low octet first.
ResidueWitness ==
    /\ engine = Crc16Kermit
    /\ fed = CheckInput \o <<\h89, \h21>>
    /\ framed
    /\ lastOp = "get"
    /\ result = {}

\* C11: a configuration whose polynomial, initialValue or xorOut does not fit
\* in 16 bits is rejected when the engine is instantiated: process() and
\* get() never run with a parameter above 0xFFFF, and such a configuration
\* ends in an error instead of an engine.
OversizedRejected ==
    /\ lastOp \in {"new", "process", "get"} =>
           /\ engine.polynomial \subseteq Positions(16)
           /\ engine.initialCrc \subseteq Positions(16)
           /\ engine.xorOut \subseteq Positions(16)
    /\ engine \in Oversized => lastOp = "error"

\* C11 witness: the instantiation with the 17-bit polynomial 0x11021 has
\* ended in an error.
OversizedRejectedWitness ==
    /\ 16 \in engine.polynomial
    /\ lastOp = "error"
    /\ calls = 0

\* The register after the octets data, by the bit-serial definition on a
\* 16-bit shift register r: the octet goes into bits 8..15, then 8 times bit
\* 15 is dropped, the other bits move up by one and the polynomial is added
\* when the dropped bit was 1.
RECURSIVE SerialBits(_, _, _)
SerialBits(r, poly, n) ==
    IF n = 0 THEN r
    ELSE LET moved == {i + 1 : i \in r \ {15}}
         IN  IF 15 \in r
             THEN SerialBits(Plus(moved, poly), poly, n - 1)
             ELSE SerialBits(moved, poly, n - 1)

RECURSIVE SerialRegister(_, _, _)
SerialRegister(e, r, data) ==
    IF data = <<>> THEN r
    ELSE LET octet == IF e.reflectIn THEN Reflected(Word(Head(data), 8), 8)
                                     ELSE Word(Head(data), 8)
             next == SerialBits(Plus(r, TimesX(octet, 8)), e.polynomial, 8)
         IN  IF next = {}
             THEN SerialRegister(e, {}, Tail(data))
             ELSE SerialRegister(e, next, Tail(data))

\* C12: in every state reachable by process() calls the register is within
\* 0..0xFFFF, and it is the register of the 16-bit shift register: the octet
\* is added to the top 8 bits only, each of the 8 shifts is a left shift
\* modulo 2^16 that discards the old top bit, and the polynomial is added
\* exactly when the discarded bit was 1.
RegisterWithin16Bits ==
    /\ crc_ \subseteq Positions(16)
    /\ crc_ = SerialRegister(engine, engine.initialCrc, fed)

\* C12 witness: an engine starting from 0xFFFF has shifted set top bits out
\* of the register over three octets.
RegisterWithin16BitsWitness ==
    /\ engine.initialCrc = Word(\hffff, 16)
    /\ Len(fed) = 3
    /\ lastOp = "process"
    /\ 15 \notin crc_
    /\ crc_ # {}

\* C14: for every octet sequence M, Crc16SpiFujitsu over M returns the same
\* get() as Crc16Xmodem over 0xFF, 0xFF followed by M, and the engine that
\* starts from 0 has the register 0x1D0F after 0xFF, 0xFF.
AugmentEquivalence ==
    (engine = Crc16SpiFujitsu /\ lastOp = "get") =>
        /\ result = get(Crc16Xmodem,
                        process(Crc16Xmodem, Crc16Xmodem.initialCrc, <<\hff, \hff>> \o fed))
        /\ process(Crc16Xmodem, Crc16Xmodem.initialCrc, <<\hff, \hff>>) = Word(\h1d0f, 16)

\* C14 witness: get() of Crc16SpiFujitsu after three octets.
AugmentEquivalenceWitness ==
    /\ engine = Crc16SpiFujitsu
    /\ lastOp = "get"
    /\ fed = <<\h01, \h80, \hff>>
    /\ result # {}

\* The LSB-first bit-serial algorithm with the reversed polynomial 0x8408:
\* the octet is added to the low 8 bits, then 8 times the register is
\* shifted right by one and 0x8408 is added when the bit shifted out was 1.
RECURSIVE LsbFirstBits(_, _)
LsbFirstBits(r, n) ==
    IF n = 0 THEN r
    ELSE LET moved == {i - 1 : i \in r \ {0}}
         IN  IF 0 \in r
             THEN LsbFirstBits(Plus(moved, Word(\h8408, 16)), n - 1)
             ELSE LsbFirstBits(moved, n - 1)

RECURSIVE LsbFirst(_, _)
LsbFirst(r, data) ==
    IF data = <<>> THEN r
    ELSE LET next == LsbFirstBits(Plus(r, Word(Head(data), 8)), 8)
         IN  IF next = {}
             THEN LsbFirst({}, Tail(data))
             ELSE LsbFirst(next, Tail(data))

\* C19: for every octet sequence M, Crc16Kermit returns the same get() as
\* the LSB-first bit-serial algorithm with the reversed polynomial 0x8408
\* started from 0.
KermitIsLsbFirst ==
    (engine = Crc16Kermit /\ lastOp = "get") => result = LsbFirst({}, fed)

\* C19 witness: get() of Crc16Kermit after three octets that are not
\* palindromes.
KermitIsLsbFirstWitness ==
    /\ engine = Crc16Kermit
    /\ lastOp = "get"
    /\ fed = <<\h01, \h80, \h01>>
    /\ result # {}

----------------------------------------------------------------------------
(* Claims about Loop *)

\* C15: for every N in 1..255, Loop<N, Wrapper, Args...>::impl(args)
\* terminates after calling Wrapper<i>::impl(args) exactly once for each i in
\* 0..N-1, in the order N-1, N-2, ..., 0, each with the same arguments, and
\* never calls Wrapper<i> for i >= N; N = 0 is not callable.
LoopCallsDescending ==
    /\ [](/\ Len(wrapperCalls) <= loopCount
          /\ \A k \in 1 .. Len(wrapperCalls) : wrapperCalls[k] = <<loopCount - k, args>>
          /\ loopPc = "done" => Len(wrapperCalls) = loopCount
          /\ loopCount = 0 => (loopPc = "deleted" /\ wrapperCalls = <<>>))
    /\ (loopCount >= 1) ~> (loopPc = "done")

\* C15 witness: Loop<255, ...>::impl has returned after 255 calls, the first
\* of Wrapper<254> and the last of Wrapper<0>.
LoopCallsDescendingWitness ==
    /\ loopCount = 255
    /\ loopPc = "done"
    /\ Len(wrapperCalls) = 255
    /\ wrapperCalls[1] = <<254, <<7>>>>
    /\ wrapperCalls[255] = <<0, <<7>>>>

----------------------------------------------------------------------------
(* Claims about Statemachine *)

\* The calls among log that are made on user states.
OnUserStates(log) == SelectSeq(log, LAMBDA c : c[2] \in UserStates)

\* The init() and deinit() calls among log that are made on user states.
Lifecycle(log) == SelectSeq(log, LAMBDA c : c[2] \in UserStates /\ c[1] \in {"init", "deinit"})

\* The user state that is initialised after the calls of log, None if none is.
Initialised(log) ==
    LET l == Lifecycle(log)
    IN  IF l # <<>> /\ l[Len(l)][1] = "init" THEN l[Len(l)][2] ELSE None

\* The calls the last call of a Statemachine member function made.
Made == SubSeq(invoked, lastCall.from + 1, Len(invoked))

\* The calls made before the last call of a Statemachine member function.
Before == SubSeq(invoked, 1, lastCall.from)

\* The state whose process() ran in the call before the last one, None if
\* that was the construction or a reset.
Ran == IF lastCall.priorOp = "process" THEN Before[Len(Before)][2] ELSE None

\* C16: process() on current state T invokes S.deinit (if a state S ran in
\* the previous call), T.init, T.process, in this order, when T differs from S
\* or no state has run since construction or reset; it invokes only T.process
\* when the previous T.process returned T. The state T.process returns is
\* left pending: nothing is invoked on it in the same call.
TransitionOrdering ==
    lastCall.op = "process" =>
        LET T == lastCall.priorState
        IN  /\ lastCall.current = T
            /\ currentState_ = lastCall.state
            /\ IF Ran = T
               THEN Made = <<<<"process", T>>>>
               ELSE OnUserStates(Made) =
                        (IF Ran # None THEN <<<<"deinit", Ran>>>> ELSE <<>>)
                            \o <<<<"init", T>>, <<"process", T>>>>

\* C16 witness: a process() call that ran stateGreen.process, which returned
\* stateGreen, was followed by one that ran only stateGreen.process, which
\* returned stateRed, and then by one that made the three calls of a
\* transition.
TransitionOrderingWitness ==
    /\ lastCall.op = "process"
    /\ lastCall.count = 3
    /\ invoked = << <<"deinit", noopState_>>, <<"init", "stateGreen">>, <<"process", "stateGreen">>,
                    <<"process", "stateGreen">>,
                    <<"deinit", "stateGreen">>, <<"init", "stateRed">>, <<"process", "stateRed">> >>
    /\ currentState_ = "stateYellow"

\* C17: reset(data, startState) calls deinit on the user state that is
\* initialised, if any, and makes no other call on a user state: none on the
\* pending state process() returned, and no init. The process() call that
\* follows it runs startState.init and then startState.process, also when
\* startState was the initialised state before the reset.
ResetDeinitialises ==
    /\ lastCall.op = "reset" =>
           OnUserStates(Made) =
               IF Initialised(Before) # None THEN <<<<"deinit", Initialised(Before)>>>> ELSE <<>>
    /\ (lastCall.op = "process" /\ lastCall.priorOp = "reset") =>
           OnUserStates(Made) = << <<"init", lastCall.priorState>>,
                                   <<"process", lastCall.priorState>> >>

\* C17 witness: stateRed ran and returned stateGreen, reset(data, stateRed)
\* deinitialised stateRed and left stateGreen alone, and the next process()
\* initialised stateRed again.
ResetDeinitialisesWitness ==
    /\ lastCall.op = "process"
    /\ lastCall.priorOp = "reset"
    /\ invoked = << <<"deinit", noopState_>>, <<"init", "stateRed">>, <<"process", "stateRed">>,
                    <<"deinit", "stateRed">>,
                    <<"deinit", noopState_>>, <<"init", "stateRed">>, <<"process", "stateRed">> >>

\* C18: over any sequence of process() and reset() calls and any choices of
\* the states, init and deinit calls on user states alternate starting with
\* init, every deinit is on the state of the init before it, so at most one
\* user state is initialised at a time; process() of a user state is called
\* only while that state is the initialised one; and previousState_ is the
\* initialised state, or noopState_ when none is, so no pointer is null.
LifecycleBalance ==
    LET l == Lifecycle(invoked)
    IN  /\ \A k \in 1 .. Len(l) :
               IF k % 2 = 1 THEN l[k][1] = "init" ELSE l[k] = <<"deinit", l[k - 1][2]>>
        /\ \A state \in UserStates :
               Len(SelectSeq(l, LAMBDA c : c = <<"init", state>>))
                   - Len(SelectSeq(l, LAMBDA c : c = <<"deinit", state>>))
                       = IF Initialised(invoked) = state THEN 1 ELSE 0
        /\ \A k \in 1 .. Len(invoked) :
               invoked[k][1] = "process" =>
                   /\ invoked[k][2] \in UserStates
                   /\ invoked[k][2] = Initialised(SubSeq(invoked, 1, k - 1))
        /\ previousState_ = IF Initialised(invoked) = None THEN noopState_ ELSE Initialised(invoked)
        /\ currentState_ \in UserStates
        /\ \A k \in 1 .. Len(invoked) : invoked[k][2] \in UserStates \cup {noopState_}

\* C18 witness: two user states were initialised and deinitialised in turn,
\* by a transition and by a reset, and a third one is initialised.
LifecycleBalanceWitness ==
    /\ Lifecycle(invoked) = << <<"init", "stateRed">>, <<"deinit", "stateRed">>,
                               <<"init", "stateGreen">>, <<"deinit", "stateGreen">>,
                               <<"init", "stateYellow">> >>
    /\ lastCall.priorOp = "reset"
    /\ previousState_ = "stateYellow"

----------------------------------------------------------------------------
(* Claims about two Crc16 objects *)

\* C13: for two objects, of the same or of different classes, and any
\* interleaving of process() and get() calls on them, the register of each
\* and the value get() returned on it are those of an object that alone
\* processed the octets processed on it.
InstancesIndependent ==
    \A i \in Instances :
        LET object == instances[i]
            alone == process(object.engine, object.engine.initialCrc, object.fed)
        IN  /\ object.crc_ = alone
            /\ object.lastOp = "get" => object.result = get(object.engine, alone)

\* C13 witness: two Crc16Xmodem objects have processed different octets, the
\* first one more than the second, and get() has returned different values.
InstancesIndependentWitness ==
    /\ instances[1].engine = instances[2].engine
    /\ Len(instances[1].fed) = MaxLen
    /\ Len(instances[2].fed) = 1
    /\ instances[1].lastOp = "get"
    /\ instances[2].lastOp = "get"
    /\ instances[1].result # instances[2].result

\* The sequences x and y have the same length, differ, and differ only in
\* one position or in two adjacent ones.
Confined(x, y) ==
    /\ Len(x) = Len(y)
    /\ x # y
    /\ \E p \in 1 .. Len(x) : \A k \in 1 .. Len(x) : x[k] # y[k] => k \in {p, p + 1}

\* C20: two objects of one catalog class that processed sequences of equal
\* length which differ, in one octet or in two adjacent octets only, return
\* different values from get().
ErrorsDetected ==
    LET a == instances[1]
        b == instances[2]
    IN  (/\ a.engine = b.engine
         /\ a.engine \in Catalog
         /\ a.pending = <<>>
         /\ b.pending = <<>>
         /\ a.lastOp = "get"
         /\ b.lastOp = "get"
         /\ Confined(a.fed, b.fed)) => a.result # b.result

\* C20 witness: a Crc16Kermit object processed three octets, another the same
\* three octets with the top bit of the first one inverted, and get() was
\* called on both.
ErrorsDetectedWitness ==
    /\ instances[1].engine = Crc16Kermit
    /\ instances[1].fed = <<\h00, \hff, \h00>>
    /\ instances[2].fed = <<\h80, \hff, \h00>>
    /\ instances[1].lastOp = "get"
    /\ instances[2].lastOp = "get"
    /\ Confined(instances[1].fed, instances[2].fed)

----------------------------------------------------------------------------
(* Claims about byteSwap *)

\* The octet k of the value a, octet 0 being the least significant one.
Octet(a, k) == {b \in Positions(CHAR_BIT) : (CHAR_BIT * k + b) \in a}

\* The value a with the bits of every octet in reverse order, the octets in place.
EachOctetReversed(a) ==
    {CHAR_BIT * (i \div CHAR_BIT) + (CHAR_BIT - 1 - (i % CHAR_BIT)) : i \in a}

\* C21: for every width N in {8, 16, 32, 64} and every N-bit value x, octet k
\* of byteSwap(x) equals octet N/8-1-k of x, bit for bit, and the result has
\* no bit outside its N bits (so byteSwap is the identity for N = 8);
\* bitSwap(x) equals byteSwap(x) with every octet bit-reversed; and
\* byteSwap(byteSwap(x)) = x.
ByteSwapReversesOctets ==
    /\ swapPc # "start" =>
           /\ swapped \subseteq Positions(width)
           /\ \A k \in 0 .. (width \div CHAR_BIT - 1) :
                  Octet(swapped, k) = Octet(value, width \div CHAR_BIT - 1 - k)
           /\ width = CHAR_BIT => swapped = value
           /\ bitSwap(value, width) = EachOctetReversed(swapped)
    /\ swapPc = "twice" => unswapped = value

\* C21 witness: a 32-bit value with a bit in each of its two low octets has
\* been swapped into one with those bits in its two high octets, and back.
ByteSwapReversesOctetsWitness ==
    /\ swapPc = "twice"
    /\ width = 32
    /\ value = {0, 9}
    /\ swapped = {17, 24}
    /\ unswapped = {0, 9}

====
